---- MODULE Spec2Model ----
(***************************************************************************)
(* Model of demo_mocks: a Service whose behaviours are reassignable        *)
(* function-typed fields (myFuncVar1, myFuncVar2), the ServiceMock wrapper *)
(* used by the tests (count, capturedReturns, expectation registry), and   *)
(* the substitutes the tests install into the slots.                       *)
(*                                                                         *)
(* A callable is modelled by its name; calling it is an operator on an     *)
(* execution record e that threads the wrapper's state (e.m) and observes  *)
(* what one handler run did: the callables entered (e.trace), the lines    *)
(* written to standard output (e.printed), the values returned by the      *)
(* completed slot invocations (e.rets) and a panic, if one was raised.     *)
(***************************************************************************)
EXTENDS Integers, Sequences, FiniteSets, TLC

VARIABLES
    sm,        \* sm[i]: the ServiceMock wrapper i with its embedded Service
    panicked,  \* the test process died from a panic raised at call time
    last,      \* observation of the most recent handler run
    flows,     \* flows[i]: NormalProgramFlow runs on wrapper i since construction
    scenario,  \* scenario[i]: every slot invocation on wrapper i so far was made by
               \* a NormalProgramFlow run with a counting closure in myFuncVar1
               \* and myMethod2Impl in myFuncVar2
    prev       \* prev[i]: the occupant of myFuncVar1 replaced by the latest override

vars == <<sm, panicked, last, flows, scenario, prev>>

------------------------------------------------------------------------------
(* Bounds of the model *)

MaxCount == 6
MaxCaptured == 2
MaxExpect == 2
MaxTimes == 2
MaxFlows == 2

Insts == {1, 2}

------------------------------------------------------------------------------
(* Strings of the program *)

Method1Prefix == "This is my Method 1 being called! Input: "
FlowHeader == "Func calls on myService struct:"
FirstCallArg == "first call"
(* the argument of myMethod2Impl's call, misspelt *)
Method2Arg_Typo == "Method 1 called from Method2"

Method2Arg == "Method 1 called from Method 2"

(* Arguments the tests and callers pass to a direct slot invocation *)
Inputs == {"first call", "Method 1 called from Method 2", ""}

(* The expectations the tests register: argument -> return value *)
ExpectArgs == {"first call", "Method 1 called from Method 2"}
ReturnFor(arg) == IF arg = "first call" THEN "my custom return" ELSE "my custom return 2"

(* Callables assignable to myFuncVar1 (func(string) string) *)
Slot1Callables ==
    { "myMethod1Impl", "countEcho", "countPassthrough",
      "myMethod1Instrumented", "myMethod1InstrumentedWithOrigCallTracking" }

(* Callables assignable to myFuncVar2 (func()) *)
Slot2Callables == { "myMethod2Impl", "emptyFunc" }

(* The closures of TestBasic, both of which increment count *)
CountingClosures == { "countEcho", "countPassthrough" }

(* The adapters that consult the expectation collaborator *)
InstrumentedMethods ==
    { "myMethod1Instrumented", "myMethod1InstrumentedWithOrigCallTracking" }

------------------------------------------------------------------------------
(* Execution records *)

Begin(m) ==
    [ m |-> m, trace |-> <<>>, printed |-> <<>>, rets |-> <<>>,
      ret |-> "", panic |-> "none" ]

Enter(e, fn, arg) == [e EXCEPT !.trace = Append(@, <<fn, arg>>)]

Println(e, line) == [e EXCEPT !.printed = Append(@, line)]

------------------------------------------------------------------------------
(* Service *)

NewService == [ myFuncVar1 |-> "myMethod1Impl", myFuncVar2 |-> "myMethod2Impl" ]

NewServiceMock ==
    [ Service |-> NewService, count |-> 0, capturedReturns |-> <<>>,
      ExpectedCalls |-> <<>> ]

(* the real implementation returning its input without the prefix *)
myMethod1Impl_NoPrefix(e, input) ==
    [ Println(Enter(e, "myMethod1Impl", input), Method1Prefix \o input)
        EXCEPT !.ret = input ]

myMethod1Impl(e, input) ==
    LET output == Method1Prefix \o input
    IN  [ Println(Enter(e, "myMethod1Impl", input), output) EXCEPT !.ret = output ]

------------------------------------------------------------------------------
(* The expectation collaborator (mock.Mock) *)

Matches(c, method, arg) == c.Method = method /\ c.Argument = arg

(* index of the first matching expectation that may still be called, 0 if none *)
findExpectedCall(calls, method, arg) ==
    LET live == { k \in 1..Len(calls) :
                    Matches(calls[k], method, arg) /\ calls[k].Repeatability > -1 }
    IN  IF live = {} THEN 0 ELSE CHOOSE k \in live : \A j \in live : k <= j

Exhausted(calls, method, arg) ==
    \E k \in 1..Len(calls) :
        Matches(calls[k], method, arg) /\ calls[k].Repeatability = -1

(* On(method, arg).Return(ret).Times(times); Once() is Times(1). Repeatability
   counts down to -1 (used up); registered keeps the number given to Times *)
On(m, method, arg, ret, times) ==
    [ m EXCEPT !.ExpectedCalls =
        Append(@, [ Method |-> method, Argument |-> arg, ReturnArguments |-> ret,
                    Repeatability |-> times, totalCalls |-> 0, registered |-> times ]) ]

(* a collaborator that keeps answering from a used-up expectation *)
Called_IgnoreUsedUp(e, method, arg) ==
    LET calls == e.m.ExpectedCalls
        k == findExpectedCall(calls, method, arg)
        hits == { j \in 1..Len(calls) : Matches(calls[j], method, arg) }
    IN  IF k = 0
        THEN IF hits = {}
             THEN [ e EXCEPT !.panic = "unmatched" ]
             ELSE [ e EXCEPT !.ret = calls[CHOOSE j \in hits : TRUE].ReturnArguments ]
        ELSE [ e EXCEPT !.m.ExpectedCalls[k].Repeatability = IF @ = 1 THEN -1 ELSE @ - 1,
                        !.m.ExpectedCalls[k].totalCalls = @ + 1,
                        !.ret = calls[k].ReturnArguments ]

(* Called(arg) from the adapter named method: without a test attached to the
   collaborator a failure is a panic, which ends the handler at the call *)
Called(e, method, arg) ==
    LET calls == e.m.ExpectedCalls
        k == findExpectedCall(calls, method, arg)
    IN  IF k = 0
        THEN [ e EXCEPT !.panic =
                 IF Exhausted(calls, method, arg) THEN "overcall" ELSE "unmatched" ]
        ELSE [ e EXCEPT !.m.ExpectedCalls[k].Repeatability = IF @ = 1 THEN -1 ELSE @ - 1,
                        !.m.ExpectedCalls[k].totalCalls = @ + 1,
                        !.ret = calls[k].ReturnArguments ]

(* an expectation registered with Times(n), n >= 1, is satisfied once used up *)
Satisfied(c) == ~(c.totalCalls = 0 \/ c.Repeatability > 0)

AssertExpectations(m) == \A k \in 1..Len(m.ExpectedCalls) : Satisfied(m.ExpectedCalls[k])

------------------------------------------------------------------------------
(* Substitutes installed by the tests *)

(* the closure forgetting to count *)
countEcho_NoCount(e, input) == [ Enter(e, "countEcho", input) EXCEPT !.ret = input ]

countEcho(e, input) ==
    [ Enter(e, "countEcho", input) EXCEPT !.m.count = @ + 1, !.ret = input ]

(* the closure returning its input instead of the real result *)
countPassthrough_Echo(e, input) ==
    LET e1 == [ Enter(e, "countPassthrough", input) EXCEPT !.m.count = @ + 1 ]
    IN  [ myMethod1Impl(e1, input) EXCEPT !.ret = input ]

countPassthrough(e, input) ==
    LET e1 == [ Enter(e, "countPassthrough", input) EXCEPT !.m.count = @ + 1 ]
    IN  myMethod1Impl(e1, input)

myMethod1Instrumented(e, input) ==
    Called(Enter(e, "myMethod1Instrumented", input), "myMethod1Instrumented", input)

(* the tracking adapter returning the real result to its caller *)
myMethod1InstrumentedWithOrigCallTracking_RealReturn(e, input) ==
    LET e1 == Called(Enter(e, "myMethod1InstrumentedWithOrigCallTracking", input),
                     "myMethod1InstrumentedWithOrigCallTracking", input)
        e2 == myMethod1Impl(e1, input)
    IN  IF e1.panic # "none" THEN e1
        ELSE [ e2 EXCEPT !.m.capturedReturns = Append(@, e2.ret) ]

myMethod1InstrumentedWithOrigCallTracking(e, input) ==
    LET e1 == Called(Enter(e, "myMethod1InstrumentedWithOrigCallTracking", input),
                     "myMethod1InstrumentedWithOrigCallTracking", input)
        e2 == myMethod1Impl(e1, input)
    IN  IF e1.panic # "none" THEN e1
        ELSE [ e2 EXCEPT !.m.capturedReturns = Append(@, e2.ret), !.ret = e1.ret ]

------------------------------------------------------------------------------
(* Calls through the slots *)

Apply1(e, fn, input) ==
    CASE fn = "myMethod1Impl" -> myMethod1Impl(e, input)
      [] fn = "countEcho" -> countEcho(e, input)
      [] fn = "countPassthrough" -> countPassthrough(e, input)
      [] fn = "myMethod1Instrumented" -> myMethod1Instrumented(e, input)
      [] fn = "myMethod1InstrumentedWithOrigCallTracking" ->
             myMethod1InstrumentedWithOrigCallTracking(e, input)

(* a method call s.myMethod1Impl(input) where the slot should be called *)
CallFuncVar1_Method(e, input) ==
    LET r == myMethod1Impl(e, input)
    IN  [ r EXCEPT !.rets = Append(@, r.ret) ]

(* s.myFuncVar1(input) *)
CallFuncVar1(e, input) ==
    LET r == Apply1(e, e.m.Service.myFuncVar1, input)
    IN  IF r.panic # "none" THEN r ELSE [ r EXCEPT !.rets = Append(@, r.ret) ]

(* Method B calling Method A directly instead of through the slot *)
myMethod2Impl_Direct(e) ==
    LET r == myMethod1Impl(Enter(e, "myMethod2Impl", ""), Method2Arg)
    IN  [ r EXCEPT !.rets = Append(@, r.ret) ]

myMethod2Impl(e) == CallFuncVar1(Enter(e, "myMethod2Impl", ""), Method2Arg)

(* s.myFuncVar2() *)
CallFuncVar2(e) ==
    IF e.m.Service.myFuncVar2 = "myMethod2Impl"
    THEN myMethod2Impl(e)
    ELSE Enter(e, "emptyFunc", "")

(* the flow without its call of myFuncVar2 *)
NormalProgramFlow_NoSecond(e) == CallFuncVar1(Println(e, FlowHeader), FirstCallArg)

NormalProgramFlow(e) ==
    LET e1 == CallFuncVar1(Println(e, FlowHeader), FirstCallArg)
    IN  IF e1.panic # "none" THEN e1 ELSE CallFuncVar2(e1)

------------------------------------------------------------------------------
(* State machine *)

NoOp == [ op |-> "init", inst |-> 0, arg |-> "", trace |-> <<>>, printed |-> <<>>,
          rets |-> <<>>, panic |-> "none", ok |-> TRUE ]

Observe(op, i, arg, e) ==
    [ op |-> op, inst |-> i, arg |-> arg, trace |-> e.trace, printed |-> e.printed,
      rets |-> e.rets, panic |-> e.panic, ok |-> TRUE ]

Init ==
    /\ sm = [ i \in Insts |-> NewServiceMock ]
    /\ panicked = FALSE
    /\ last = NoOp
    /\ flows = [ i \in Insts |-> 0 ]
    /\ scenario = [ i \in Insts |-> TRUE ]
    /\ prev = [ i \in Insts |-> "myMethod1Impl" ]

WithinBounds(m) ==
    /\ m.count <= MaxCount
    /\ Len(m.capturedReturns) <= MaxCaptured

(* the handler run e on wrapper i took place *)
Ran(op, i, arg, e) ==
    /\ WithinBounds(e.m)
    /\ sm' = [ sm EXCEPT ![i] = e.m ]
    /\ panicked' = (e.panic # "none")
    /\ last' = Observe(op, i, arg, e)

(* wrappedWithMock := ServiceMock{Service: NewService()} *)
Construct(i) ==
    /\ ~panicked
    /\ sm' = [ sm EXCEPT ![i] = NewServiceMock ]
    /\ last' = [ NoOp EXCEPT !.op = "Construct", !.inst = i ]
    /\ UNCHANGED panicked

(* an assignment reaching every instance, as if NewService handed out one
   shared Service *)
AssignFuncVar1_Shared(i, fn) ==
    /\ ~panicked
    /\ sm' = [ j \in Insts |-> [ sm[j] EXCEPT !.Service.myFuncVar1 = fn ] ]
    /\ last' = [ NoOp EXCEPT !.op = "AssignFuncVar1", !.inst = i, !.arg = fn ]
    /\ UNCHANGED panicked

(* wrappedWithMock.myFuncVar1 = fn *)
AssignFuncVar1(i, fn) ==
    /\ ~panicked
    /\ sm' = [ sm EXCEPT ![i].Service.myFuncVar1 = fn ]
    /\ last' = [ NoOp EXCEPT !.op = "AssignFuncVar1", !.inst = i, !.arg = fn ]
    /\ UNCHANGED panicked

(* wrappedWithMock.myFuncVar2 = fn *)
AssignFuncVar2(i, fn) ==
    /\ ~panicked
    /\ sm' = [ sm EXCEPT ![i].Service.myFuncVar2 = fn ]
    /\ last' = [ NoOp EXCEPT !.op = "AssignFuncVar2", !.inst = i, !.arg = fn ]
    /\ UNCHANGED panicked

(* wrappedWithMock.On(method, arg).Return(ret).Times(times) *)
Expect(i, method, arg, ret, times) ==
    /\ ~panicked
    /\ Len(sm[i].ExpectedCalls) < MaxExpect
    /\ sm' = [ sm EXCEPT ![i] = On(sm[i], method, arg, ret, times) ]
    /\ last' = [ NoOp EXCEPT !.op = "On", !.inst = i, !.arg = arg ]
    /\ UNCHANGED panicked

(* a direct invocation myService.myFuncVar1(input) *)
InvokeFuncVar1(i, input) ==
    /\ ~panicked
    /\ Ran("myFuncVar1", i, input, CallFuncVar1(Begin(sm[i]), input))

(* a direct invocation myService.myFuncVar2() *)
InvokeFuncVar2(i) ==
    /\ ~panicked
    /\ Ran("myFuncVar2", i, "", CallFuncVar2(Begin(sm[i])))

(* NormalProgramFlow(wrappedWithMock.Service) *)
RunNormalProgramFlow(i) ==
    /\ ~panicked
    /\ Ran("NormalProgramFlow", i, "", NormalProgramFlow(Begin(sm[i])))

(* wrappedWithMock.AssertExpectations(t) *)
Verify(i) ==
    /\ ~panicked
    /\ last' = [ NoOp EXCEPT !.op = "AssertExpectations", !.inst = i,
                             !.ok = AssertExpectations(sm[i]) ]
    /\ UNCHANGED <<sm, panicked>>

------------------------------------------------------------------------------
(* History of the counting scenario of TestBasic *)

hist == <<flows, scenario, prev>>

HConstruct(i) ==
    /\ flows' = [ flows EXCEPT ![i] = 0 ]
    /\ scenario' = [ scenario EXCEPT ![i] = TRUE ]
    /\ prev' = [ prev EXCEPT ![i] = "myMethod1Impl" ]

HAssignFuncVar1(i) ==
    /\ prev' = [ prev EXCEPT ![i] = sm[i].Service.myFuncVar1 ]
    /\ UNCHANGED <<flows, scenario>>

HInvoke(i) ==
    /\ scenario' = [ scenario EXCEPT ![i] = FALSE ]
    /\ UNCHANGED <<flows, prev>>

HFlow(i) ==
    /\ flows[i] < MaxFlows
    /\ flows' = [ flows EXCEPT ![i] = @ + 1 ]
    /\ scenario' = [ scenario EXCEPT ![i] =
                       /\ @
                       /\ sm[i].Service.myFuncVar1 \in CountingClosures
                       /\ sm[i].Service.myFuncVar2 = "myMethod2Impl" ]
    /\ UNCHANGED prev

------------------------------------------------------------------------------
(* Vocabulary of the properties *)

InvokeOps == { "myFuncVar1", "myFuncVar2", "NormalProgramFlow" }

(* the output the real implementation is documented to produce for input x *)
RealOutput(x) == "This is my Method 1 being called! Input: " \o x

(* callables that themselves call myMethod1Impl *)
Delegating == { "countPassthrough", "myMethod1InstrumentedWithOrigCallTracking" }

Occupant1(i) == sm[i].Service.myFuncVar1
Occupant2(i) == sm[i].Service.myFuncVar2

(* positions of the trace at which callable fn was entered *)
Entries(t, fn) == { k \in 1..Len(t) : t[k][1] = fn }

------------------------------------------------------------------------------
(* C1: Default binding. A Service just returned by NewService holds
   myMethod1Impl in myFuncVar1 and myMethod2Impl in myFuncVar2; with these
   occupants myFuncVar1(x) returns "This is my Method 1 being called! Input: "
   followed by x, and one NormalProgramFlow enters myMethod1Impl exactly twice,
   first with "first call", then through myMethod2Impl with
   "Method 1 called from Method 2". *)
C1_DefaultBinding ==
    \A i \in Insts :
        /\ (last.op \in {"init", "Construct"} /\ last.inst \in {0, i}) =>
              /\ Occupant1(i) = "myMethod1Impl"
              /\ Occupant2(i) = "myMethod2Impl"
        /\ (last.inst = i /\ Occupant1(i) = "myMethod1Impl"
                /\ Occupant2(i) = "myMethod2Impl") =>
              /\ last.op = "myFuncVar1" =>
                    /\ last.rets = << RealOutput(last.arg) >>
                    /\ last.trace = << <<"myMethod1Impl", last.arg>> >>
              /\ last.op = "NormalProgramFlow" =>
                    /\ last.trace =
                         << <<"myMethod1Impl", "first call">>,
                            <<"myMethod2Impl", "">>,
                            <<"myMethod1Impl", "Method 1 called from Method 2">> >>
                    /\ last.rets = << RealOutput("first call"),
                                      RealOutput("Method 1 called from Method 2") >>
                    /\ last.panic = "none"

C1_Witness ==
    /\ last.op = "NormalProgramFlow"
    /\ last.inst = 1
    /\ Occupant1(1) = "myMethod1Impl"
    /\ Occupant2(1) = "myMethod2Impl"
    /\ Cardinality(Entries(last.trace, "myMethod1Impl")) = 2

(* C2: Indirection. myMethod2Impl calls the occupant of myFuncVar1: whenever
   myMethod2Impl is entered, the next callable entered is the current occupant
   of myFuncVar1, once, with "Method 1 called from Method 2", and
   myMethod1Impl runs after it only if that occupant calls it itself. *)
C2_Indirection ==
    \A i \in Insts :
        (last.op \in InvokeOps /\ last.inst = i) =>
            LET t == last.trace
                occ == Occupant1(i)
            IN  \A k \in Entries(t, "myMethod2Impl") :
                    /\ Len(t) > k
                    /\ t[k + 1] = <<occ, "Method 1 called from Method 2">>
                    /\ Cardinality({ j \in (k + 1)..Len(t) : t[j][1] = occ }) = 1
                    /\ \A j \in (k + 2)..Len(t) :
                          /\ t[j] = <<"myMethod1Impl", "Method 1 called from Method 2">>
                          /\ occ \in Delegating

C2_Witness ==
    /\ last.op = "myFuncVar2"
    /\ last.inst = 1
    /\ Occupant1(1) = "countEcho"
    /\ last.trace = << <<"myMethod2Impl", "">>,
                       <<"countEcho", "Method 1 called from Method 2">> >>

(* C3: Call count per flow. While every slot invocation since construction
   was made by a NormalProgramFlow run with a counting closure in myFuncVar1
   (whichever of the two, also after one replaced the other) and myMethod2Impl
   in myFuncVar2, count is twice the number of runs: 2 after the first run,
   4 after the second, and each such run enters the counting closure twice. *)
C3_CallCountPerFlow ==
    \A i \in Insts :
        scenario[i] =>
            /\ sm[i].count = 2 * flows[i]
            /\ (last.op = "NormalProgramFlow" /\ last.inst = i) =>
                  Cardinality(Entries(last.trace, Occupant1(i))) = 2

C3_Witness ==
    /\ scenario[1]
    /\ flows[1] = 2
    /\ sm[1].count = 4
    /\ prev[1] = "countEcho"
    /\ Occupant1(1) = "countPassthrough"
    /\ last.op = "NormalProgramFlow"

(* C4 as stated: with a counting closure in myFuncVar1 and count starting at 0,
   two runs of NormalProgramFlow leave count at exactly 2. *)
C4_TwoFlowsCountTwo ==
    \A i \in Insts : (scenario[i] /\ flows[i] = 2) => sm[i].count = 2

(* C4 amended: with a counting closure in myFuncVar1 and count starting at 0,
   two runs of NormalProgramFlow leave count at exactly 4, and one run at 2. *)
C4_TwoFlowsCountFour ==
    \A i \in Insts :
        /\ (scenario[i] /\ flows[i] = 2) => sm[i].count = 4
        /\ (scenario[i] /\ flows[i] = 1) => sm[i].count = 2

C4_Witness ==
    /\ scenario[1]
    /\ flows[1] = 2
    /\ last.op = "NormalProgramFlow"
    /\ Occupant1(1) \in CountingClosures

(* C7: Pass-through fidelity. With the counting pass-through closure in
   myFuncVar1, every completed slot invocation returns what myMethod1Impl
   returns for the same input, and myMethod1Impl prints once per invocation. *)
C7_PassThroughFidelity ==
    \A i \in Insts :
        (last.op \in InvokeOps /\ last.inst = i
            /\ Occupant1(i) = "countPassthrough") =>
            LET t == last.trace
                at == Entries(t, "countPassthrough")
                impl == Entries(t, "myMethod1Impl")
                outs == SelectSeq(last.printed, LAMBDA l : l # FlowHeader)
            IN  /\ Len(last.rets) = Cardinality(at)
                /\ Cardinality(impl) = Cardinality(at)
                /\ \A k \in at : k < Len(t) /\ t[k + 1] = <<"myMethod1Impl", t[k][2]>>
                /\ outs = last.rets
                /\ last.op = "myFuncVar1" =>
                      /\ last.rets = << myMethod1Impl(Begin(sm[i]), last.arg).ret >>
                      /\ last.rets = << RealOutput(last.arg) >>
                      /\ last.printed = << RealOutput(last.arg) >>

C7_Witness ==
    /\ last.op = "myFuncVar1"
    /\ last.inst = 1
    /\ last.arg = "first call"
    /\ Occupant1(1) = "countPassthrough"
    /\ last.rets = << "This is my Method 1 being called! Input: first call" >>

(* C9: Override is immediate and total. Whatever was assigned before, a slot
   invocation enters only the current occupant of myFuncVar1 (and
   myMethod1Impl when that occupant calls it): a replaced occupant is never
   entered again, and each completed invocation enters the occupant once. *)
C9_OverrideTotal ==
    \A i \in Insts :
        (last.op \in InvokeOps /\ last.inst = i) =>
            LET t == last.trace
                occ == Occupant1(i)
            IN  /\ \A k \in 1..Len(t) :
                      \/ t[k][1] \in {"myMethod2Impl", "emptyFunc"}
                      \/ t[k][1] = occ
                      \/ /\ t[k][1] = "myMethod1Impl"
                         /\ occ \in Delegating
                         /\ k > 1
                         /\ t[k - 1] = <<occ, t[k][2]>>
                /\ Len(last.rets) <= Cardinality(Entries(t, occ))
                /\ last.panic = "none" => Len(last.rets) = Cardinality(Entries(t, occ))

C9_Witness ==
    /\ last.op = "NormalProgramFlow"
    /\ last.inst = 1
    /\ prev[1] = "countEcho"
    /\ Occupant1(1) = "countPassthrough"
    /\ sm[1].count = 4
    /\ Entries(last.trace, "countEcho") = {}

(* Vocabulary of C8: a call of myFuncVar1 behaves alike on two wrappers *)
SameCall1(m1, m2, x) ==
    LET r1 == CallFuncVar1(Begin(m1), x)
        r2 == CallFuncVar1(Begin(m2), x)
    IN  /\ r1.rets = r2.rets
        /\ r1.trace = r2.trace
        /\ r1.printed = r2.printed
        /\ r1.panic = r2.panic
        /\ r1.m.count = r2.m.count

C8_Step ==
    \A i \in Insts :
        /\ (last'.op = "AssignFuncVar1" /\ last'.inst = i) =>
              /\ sm'[i] = [ sm[i] EXCEPT !.Service.myFuncVar1 = last'.arg ]
              /\ \A j \in Insts \ {i} :
                    /\ sm'[j] = sm[j]
                    /\ \A x \in Inputs : SameCall1(sm'[j], sm[j], x)
        /\ (last'.op = "AssignFuncVar2" /\ last'.inst = i) =>
              /\ sm'[i] = [ sm[i] EXCEPT !.Service.myFuncVar2 = last'.arg ]
              /\ \A x \in Inputs : SameCall1(sm'[i], sm[i], x)
              /\ \A j \in Insts \ {i} : sm'[j] = sm[j]

(* C8: Override isolation. Assigning a callable to one slot of one Service
   changes that slot only: the other slot and the rest of the wrapper keep
   their values, every other instance is unchanged, and after an assignment to
   myFuncVar2 every myFuncVar1(x) behaves as before. *)
C8_OverrideIsolation == [][C8_Step]_vars

C8_Witness ==
    /\ last.op = "AssignFuncVar2"
    /\ last.inst = 1
    /\ Occupant2(1) = "emptyFunc"
    /\ Occupant1(1) = "countEcho"
    /\ Occupant1(2) = "countPassthrough"
    /\ Occupant2(2) = "myMethod2Impl"
    /\ sm[2].count = 1

(* Vocabulary of C5: the two expectations of TestWTestifyMockBasic, unused *)
TestExpectation(arg, ret) ==
    [ Method |-> "myMethod1Instrumented", Argument |-> arg, ReturnArguments |-> ret,
      Repeatability |-> 1, totalCalls |-> 0, registered |-> 1 ]

FreshPair(m) ==
    /\ Len(m.ExpectedCalls) = 2
    /\ { m.ExpectedCalls[1], m.ExpectedCalls[2] } =
         { TestExpectation("first call", "my custom return"),
           TestExpectation("Method 1 called from Method 2", "my custom return 2") }

C5_Step ==
    ( /\ last'.op = "NormalProgramFlow"
      /\ last'.inst = 1
      /\ Occupant1(1) = "myMethod1Instrumented"
      /\ Occupant2(1) = "myMethod2Impl"
      /\ FreshPair(sm[1]) ) =>
        /\ last'.panic = "none"
        /\ ~panicked'
        /\ last'.rets = << "my custom return", "my custom return 2" >>
        /\ last'.trace = << <<"myMethod1Instrumented", "first call">>,
                            <<"myMethod2Impl", "">>,
                            <<"myMethod1Instrumented", "Method 1 called from Method 2">> >>
        /\ \A k \in 1..2 : sm'[1].ExpectedCalls[k].totalCalls = 1
        /\ AssertExpectations(sm'[1])

(* C5: Expectation matching. With myMethod1Instrumented in myFuncVar1,
   myMethod2Impl in myFuncVar2 and exactly the two expectations
   ("first call" -> "my custom return", once) and
   ("Method 1 called from Method 2" -> "my custom return 2", once) registered,
   one NormalProgramFlow raises no failure, returns the registered value for
   each argument, calls each expectation exactly once, and AssertExpectations
   then succeeds. *)
C5_ExpectationMatching == [][C5_Step]_vars

C5_Witness ==
    /\ last.op = "NormalProgramFlow"
    /\ last.inst = 1
    /\ Occupant1(1) = "myMethod1Instrumented"
    /\ last.rets = << "my custom return", "my custom return 2" >>
    /\ Len(sm[1].ExpectedCalls) = 2
    /\ \A k \in 1..2 : /\ sm[1].ExpectedCalls[k].totalCalls = 1
                       /\ sm[1].ExpectedCalls[k].registered = 1

(* Vocabulary of C6: calls the collaborator recorded for a method *)
RECURSIVE TotalCalls(_, _)
TotalCalls(calls, method) ==
    IF calls = <<>> THEN 0
    ELSE (IF Head(calls).Method = method THEN Head(calls).totalCalls ELSE 0)
         + TotalCalls(Tail(calls), method)

Tracking == "myMethod1InstrumentedWithOrigCallTracking"

C6_Counted ==
    \A i \in Insts :
        Len(sm[i].capturedReturns) = TotalCalls(sm[i].ExpectedCalls, Tracking)

C6_Step ==
    ( /\ last'.op \in InvokeOps
      /\ last'.inst = 1
      /\ Occupant1(1) = Tracking ) =>
        LET n == Len(last'.rets)
            at == SelectSeq(last'.trace, LAMBDA c : c[1] = Tracking)
            old == sm[1].capturedReturns
            new == sm'[1].capturedReturns
        IN  /\ n <= Len(at)
            /\ Len(new) = Len(old) + n
            /\ SubSeq(new, 1, Len(old)) = old
            /\ \A k \in 1..n :
                  /\ new[Len(old) + k] = RealOutput(at[k][2])
                  /\ last'.rets[k] # new[Len(old) + k]
                  /\ \E j \in 1..Len(sm[1].ExpectedCalls) :
                        /\ Matches(sm[1].ExpectedCalls[j], Tracking, at[k][2])
                        /\ last'.rets[k] = sm[1].ExpectedCalls[j].ReturnArguments
            /\ ( /\ last'.op = "NormalProgramFlow"
                 /\ last'.panic = "none"
                 /\ Occupant2(1) = "myMethod2Impl" ) => n = 2

(* C6: Captured returns. The length of capturedReturns is the number of
   completed invocations of the tracking substitute; each completed invocation
   appends myMethod1Impl's output for its argument, in order, while the caller
   receives the value registered with the collaborator, not that output; a
   NormalProgramFlow that completes with the substitute installed makes two
   such invocations. *)
C6_CapturedReturns == []C6_Counted /\ [][C6_Step]_vars

C6_Witness ==
    /\ last.op = "NormalProgramFlow"
    /\ last.inst = 1
    /\ last.panic = "none"
    /\ Occupant1(1) = Tracking
    /\ sm[1].capturedReturns =
         << "This is my Method 1 being called! Input: first call",
            "This is my Method 1 being called! Input: Method 1 called from Method 2" >>
    /\ last.rets = << "my custom return", "my custom return 2" >>

(* Vocabulary of C10: some expectation received fewer calls than registered *)
Unmet(m) ==
    \E k \in 1..Len(m.ExpectedCalls) :
        m.ExpectedCalls[k].totalCalls < m.ExpectedCalls[k].registered

C10_Step ==
    \A i \in {1} :
        LET occ == Occupant1(i)
            calls == sm[i].ExpectedCalls
            x == last'.arg
            live == \E k \in 1..Len(calls) :
                        Matches(calls[k], occ, x) /\ calls[k].totalCalls < calls[k].registered
            used == \E k \in 1..Len(calls) :
                        Matches(calls[k], occ, x) /\ calls[k].totalCalls >= calls[k].registered
        IN  /\ last'.panic # "none" =>
                  /\ last'.op \in InvokeOps
                  /\ occ \in InstrumentedMethods
                  /\ last'.panic \in {"unmatched", "overcall"}
            /\ panicked' = (last'.panic # "none")
            /\ ~last'.ok => last'.op = "AssertExpectations"
            /\ last'.op = "AssertExpectations" => (last'.ok = ~Unmet(sm[i]))
            /\ (last'.op = "myFuncVar1" /\ last'.inst = i /\ occ \in InstrumentedMethods) =>
                  /\ live => last'.panic = "none"
                  /\ (~live /\ used) => last'.panic = "overcall"
                  /\ (~live /\ ~used) => last'.panic = "unmatched"

(* C10: Failure reporting. Assignments and registrations never fail, and a slot
   invocation fails only when the occupant is an adapter of the expectation
   collaborator. A call matching an expectation that has received fewer calls
   than registered succeeds, so an unmet expectation is reported only by
   AssertExpectations, which fails exactly when some expectation is unmet; a
   call matching only used-up expectations is reported at that call. *)
C10_FailureReporting == [][C10_Step]_vars

C10_Witness ==
    /\ last.op = "myFuncVar1"
    /\ last.inst = 1
    /\ last.panic = "overcall"
    /\ panicked
    /\ \E k \in 1..Len(sm[1].ExpectedCalls) :
          /\ Matches(sm[1].ExpectedCalls[k], Occupant1(1), last.arg)
          /\ sm[1].ExpectedCalls[k].registered = 2
          /\ sm[1].ExpectedCalls[k].totalCalls = 2

------------------------------------------------------------------------------
(* The closures of TestBasic and the framework adapters, without registered
   expectations: one wrapper, with the history of the counting scenario *)
Next ==
    \E i \in {1} :
        \/ Construct(i) /\ HConstruct(i)
        \/ \E fn \in Slot1Callables : AssignFuncVar1(i, fn) /\ HAssignFuncVar1(i)
        \/ \E fn \in Slot2Callables : AssignFuncVar2(i, fn) /\ UNCHANGED hist
        \/ \E input \in Inputs : InvokeFuncVar1(i, input) /\ HInvoke(i)
        \/ InvokeFuncVar2(i) /\ HInvoke(i)
        \/ RunNormalProgramFlow(i) /\ HFlow(i)

Spec == Init /\ [][Next]_vars

(* The framework adapters with the expectation collaborator: one wrapper *)
NextMock ==
    \E i \in {1} :
        \/ Construct(i) /\ UNCHANGED hist
        \/ \E fn \in InstrumentedMethods \cup {"myMethod1Impl"} :
              AssignFuncVar1(i, fn) /\ UNCHANGED hist
        \/ \E method \in InstrumentedMethods, arg \in ExpectArgs, times \in 1..MaxTimes :
              Expect(i, method, arg, ReturnFor(arg), times) /\ UNCHANGED hist
        \/ \E input \in Inputs : InvokeFuncVar1(i, input) /\ UNCHANGED hist
        \/ InvokeFuncVar2(i) /\ UNCHANGED hist
        \/ RunNormalProgramFlow(i) /\ UNCHANGED hist
        \/ Verify(i) /\ UNCHANGED hist

SpecMock == Init /\ [][NextMock]_vars

(* Two Service instances, each overridden and invoked on its own *)
NextIso ==
    \E i \in Insts :
        \/ Construct(i) /\ UNCHANGED hist
        \/ \E fn \in CountingClosures \cup {"myMethod1Impl"} :
              AssignFuncVar1(i, fn) /\ UNCHANGED hist
        \/ \E fn \in Slot2Callables : AssignFuncVar2(i, fn) /\ UNCHANGED hist
        \/ \E input \in Inputs : InvokeFuncVar1(i, input) /\ UNCHANGED hist
        \/ InvokeFuncVar2(i) /\ UNCHANGED hist
        \/ RunNormalProgramFlow(i) /\ UNCHANGED hist

SpecIso == Init /\ [][NextIso]_vars

====
